---- MODULE Spec2Model ----
(***************************************************************************)
(* A model of src/dsnt.py: the Differentiable Spatial to Numerical         *)
(* Transform (dsnt), its heatmap normalisation, the Gaussian target        *)
(* generator and the Jensen-Shannon regularisation loss.                   *)
(*                                                                         *)
(* Numbers are exact.  A real is a reduced fraction <<n, d>> with d > 0;   *)
(* <<0, 0>> is NaN (the only non-finite value the modelled inputs can      *)
(* produce: 0/0).  Raw heatmap entries are integer multiples of ln 2, so   *)
(* that tf.exp of them is an exact power of two; the Gaussian's exponent   *)
(* -4*ln(2)*d2/fwhm^2 is drawn so that it is an integer multiple of ln 2   *)
(* as well.  tf.log is kept symbolic: a divergence is a formal rational    *)
(* combination of atoms ln(v + eps).                                        *)
(* The `/` of line 27/29 is Python 3's true division (tf.truediv).         *)
(***************************************************************************)
EXTENDS Integers, Sequences, FiniteSets, TLC

VARIABLES op, pc, inputs, method, ret, dsnt_x, dsnt_y,
          p, q, eps,
          heatmaps, centres_in, height, width, fwhm,
          loop_centres, loop_heatmaps, iters, gauss

vars == <<op, pc, inputs, method, ret, dsnt_x, dsnt_y, p, q, eps,
          heatmaps, centres_in, height, width, fwhm,
          loop_centres, loop_heatmaps, iters, gauss>>

dsntVars == <<inputs, method, dsnt_x, dsnt_y>>
divVars == <<p, q, eps>>
gaussArgs == <<heatmaps, centres_in, height, width, fwhm>>
loopVars == <<loop_centres, loop_heatmaps, iters, gauss>>

(***************************************************************************)
(* Bounds of the model.                                                    *)
(***************************************************************************)
MaxB == 2
MaxH == 2
MaxW == 2

(***************************************************************************)
(* Exact arithmetic.                                                       *)
(***************************************************************************)
Abs(n) == IF n < 0 THEN -n ELSE n

RECURSIVE GCD(_, _)
GCD(a, b) == IF b = 0 THEN a ELSE GCD(b, a % b)

NaN == <<0, 0>>
IsNaN(x) == x[2] = 0

Rat(n, d) ==
    IF d = 0 THEN NaN
    ELSE LET g == GCD(Abs(n), Abs(d))
             s == IF d < 0 THEN -1 ELSE 1
         IN  <<(s * n) \div g, (s * d) \div g>>

Zero == Rat(0, 1)
One == Rat(1, 1)
Half == Rat(1, 2)

\* sums and products reduce before they multiply, so that the intermediate
\* integers stay as small as the result
RAdd(x, y) == IF IsNaN(x) \/ IsNaN(y) THEN NaN
              ELSE LET g == GCD(x[2], y[2])
                   IN  Rat(x[1] * (y[2] \div g) + y[1] * (x[2] \div g), (x[2] \div g) * y[2])
RNeg(x) == IF IsNaN(x) THEN NaN ELSE <<-x[1], x[2]>>
RSub(x, y) == RAdd(x, RNeg(y))
RMul(x, y) == IF IsNaN(x) \/ IsNaN(y) THEN NaN
              ELSE LET g1 == GCD(Abs(x[1]), y[2])
                       g2 == GCD(Abs(y[1]), x[2])
                   IN  Rat((x[1] \div g1) * (y[1] \div g2), (x[2] \div g2) * (y[2] \div g1))
\* x / y: 0/0 is NaN; the modelled inputs never divide a non-zero by zero
RDiv(x, y) == IF IsNaN(x) \/ IsNaN(y) \/ y[1] = 0 THEN NaN
              ELSE RMul(x, IF y[1] < 0 THEN <<-y[2], -y[1]>> ELSE <<y[2], y[1]>>)
RLess(x, y) == /\ ~IsNaN(x) /\ ~IsNaN(y)
               /\ x[1] * (y[2] \div GCD(x[2], y[2])) < y[1] * (x[2] \div GCD(x[2], y[2]))
RLeq(x, y) == /\ ~IsNaN(x) /\ ~IsNaN(y)
              /\ x[1] * (y[2] \div GCD(x[2], y[2])) <= y[1] * (x[2] \div GCD(x[2], y[2]))

RECURSIVE Pow2(_)
Pow2(k) == IF k = 0 THEN 1 ELSE 2 * Pow2(k - 1)

\* tf.exp(k * ln 2) = 2^k
Exp(k) == IF k >= 0 THEN Rat(Pow2(k), 1) ELSE Rat(1, Pow2(-k))

RECURSIVE SumSeq(_)
SumSeq(s) == IF s = <<>> THEN Zero ELSE RAdd(s[1], SumSeq(Tail(s)))

RECURSIVE MaxSeq(_)
MaxSeq(s) == IF Len(s) = 1 THEN s[1]
             ELSE LET m == MaxSeq(Tail(s)) IN IF s[1] > m THEN s[1] ELSE m

RECURSIVE Flatten(_)
Flatten(rows) == IF rows = <<>> THEN <<>> ELSE rows[1] \o Flatten(Tail(rows))

(***************************************************************************)
(* Tensor helpers: a [B,H,W] tensor is a sequence of B images, an image a  *)
(* sequence of H rows, a row a sequence of W entries.                      *)
(***************************************************************************)
Map3(F(_), t) == [b \in DOMAIN t |-> [h \in DOMAIN t[b] |-> [w \in DOMAIN t[b][h] |-> F(t[b][h][w])]]]

\* tf.reduce_sum(x, [1, 2])
ReduceSum12(t) == [b \in DOMAIN t |-> SumSeq(Flatten(t[b]))]

\* tf.reduce_max(target, axes=[1, 2], keep_dims=True) on integer entries
ReduceMax12(t) == [b \in DOMAIN t |-> MaxSeq(Flatten(t[b]))]

\* tf.multiply on two tensors of one shape
Multiply(a, b) == [i \in DOMAIN a |-> [h \in DOMAIN a[i] |-> [w \in DOMAIN a[i][h] |-> RMul(a[i][h][w], b[i][h][w])]]]

Ok(hm, co) == [status |-> "ok", msg |-> "", heatmap |-> hm, coords |-> co, value |-> <<>>]
OkValue(v) == [status |-> "ok", msg |-> "", heatmap |-> <<>>, coords |-> <<>>, value |-> v]
Error(kind, m) == [status |-> kind, msg |-> m, heatmap |-> <<>>, coords |-> <<>>, value |-> <<>>]
NoRet == [status |-> "none", msg |-> "", heatmap |-> <<>>, coords |-> <<>>, value |-> <<>>]

(***************************************************************************)
(* _softmax2d, lines 93-105 (entries in units of ln 2).                    *)
(***************************************************************************)
Softmax2d(target) ==
    LET max_axis == ReduceMax12(target)
        target_exp == [b \in DOMAIN target |-> [h \in DOMAIN target[b] |->
                          [w \in DOMAIN target[b][h] |-> Exp(target[b][h][w] - max_axis[b])]]]
        normalize == ReduceSum12(target_exp)
    IN  [b \in DOMAIN target |-> [h \in DOMAIN target[b] |->
            [w \in DOMAIN target[b][h] |-> RDiv(target_exp[b][h][w], normalize[b])]]]

(***************************************************************************)
(* _normalise_heatmap, lines 54-82.  The heatmap is taken as it is after   *)
(* line 62 has dropped a trailing dimension of size 1: shape [B,H,W].      *)
(***************************************************************************)
\* the literal leading dimension of the reshape target [2, 1, 1] of line 65
ReshapeBatch == 2

\* tf.reshape(sums, [2, 1, 1]): fails unless the tensor has exactly 2 elements
ReshapeSums(sums) ==
    IF Len(sums) = ReshapeBatch * 1 * 1
    THEN [ok |-> TRUE, value |-> [b \in 1..ReshapeBatch |-> <<<<sums[b]>>>>]]
    ELSE [ok |-> FALSE, value |-> <<>>]

\* normalise = lambda x: tf.div(x, tf.reshape(tf.reduce_sum(x, [1, 2]), [2, 1, 1]))
Normalise(x) ==
    LET r == ReshapeSums(ReduceSum12(x))
    IN  IF ~r.ok
        THEN Error("InvalidArgumentError", "reshape")
        ELSE \* [B,H,W] / [2,1,1] broadcasts with B = 2 here
             Ok([b \in DOMAIN x |-> [h \in DOMAIN x[b] |-> [w \in DOMAIN x[b][h] |->
                    RDiv(x[b][h][w], r.value[b][1][1])]]], <<>>)

\* elementwise rectifications of an entry k (standing for k * ln 2); the unit
\* cancels in the division by the sum, so abs and relu keep the integer
TfAbs(k) == Rat(Abs(k), 1)
TfRelu(k) == Rat(IF k > 0 THEN k ELSE 0, 1)
\* 1 / (1 + exp(-x)) = 2^k / (2^k + 1)
TfSigmoid(k) == RDiv(Exp(k), RAdd(Exp(k), One))

\* a slip that would silently fall back to the default method
NormaliseHeatmapDefault(in, m) ==
    IF m = "abs" THEN Normalise(Map3(TfAbs, in))
    ELSE IF m = "relu" THEN Normalise(Map3(TfRelu, in))
    ELSE IF m = "sigmoid" THEN Normalise(Map3(TfSigmoid, in))
    ELSE Ok(Softmax2d(in), <<>>)

UnknownMethod(m) == Error("ValueError", "Unknown rectification method \"" \o m \o "\"")

NormaliseHeatmap(in, m) ==
    IF m = "softmax" THEN Ok(Softmax2d(in), <<>>)
    ELSE IF m = "abs" THEN Normalise(Map3(TfAbs, in))
    ELSE IF m = "relu" THEN Normalise(Map3(TfRelu, in))
    ELSE IF m = "sigmoid" THEN Normalise(Map3(TfSigmoid, in))
    ELSE UnknownMethod(m)

(***************************************************************************)
(* dsnt, lines 8-39.                                                       *)
(***************************************************************************)
\* a slip in the grid's offset: (2*i - n) / n
GridRowOff(n) == [i \in 1..n |-> Rat(2 * i - n, n)]

\* (2 * tf.range(1, n+1) - (n + 1)) / n
GridRow(n) == [i \in 1..n |-> Rat(2 * i - (n + 1), n)]

\* tf.tile([[row]], [batch, rows, 1])
Tile(row, batch, rows) == [b \in 1..batch |-> [r \in 1..rows |-> row]]

\* tf.transpose(t, perm=[0, 2, 1])
Transpose(t) == [b \in DOMAIN t |-> [i \in DOMAIN t[b][1] |-> [j \in DOMAIN t[b] |-> t[b][j][i]]]]

DsntX(batch_count, h, w) == Tile(GridRow(w), batch_count, h)
DsntY(batch_count, h, w) == Transpose(Tile(GridRow(h), batch_count, w))

\* a slip that would zip the pairs as [y, x]
StackSwapped(outputs_x, outputs_y) == [b \in DOMAIN outputs_x |-> <<outputs_y[b], outputs_x[b]>>]

\* tf.stack([outputs_x, outputs_y], axis=1)
Stack(outputs_x, outputs_y) == [b \in DOMAIN outputs_x |-> <<outputs_x[b], outputs_y[b]>>]

Dsnt(in, m) ==
    LET n == NormaliseHeatmap(in, m)
    IN  IF n.status # "ok" THEN n
        ELSE LET norm_heatmap == n.heatmap
                 batch_count == Len(norm_heatmap)
                 h == Len(norm_heatmap[1])
                 w == Len(norm_heatmap[1][1])
                 outputs_x == ReduceSum12(Multiply(norm_heatmap, DsntX(batch_count, h, w)))
                 outputs_y == ReduceSum12(Multiply(norm_heatmap, DsntY(batch_count, h, w)))
             IN  Ok(norm_heatmap, Stack(outputs_x, outputs_y))

(***************************************************************************)
(* Inputs of the normaliser and of dsnt.                                   *)
(***************************************************************************)
Methods == {"softmax", "abs", "relu", "sigmoid"}
OtherMethods == {"tanh", "Softmax", ""}

\* an image with one spike v at pixel number pos (row-major) on a background bg
RawImage(h, w, bg, pos, v) ==
    [i \in 1..h |-> [j \in 1..w |-> IF (i - 1) * w + j = pos THEN v ELSE bg]]

\* <<background, spike of the first image>>; image b carries the spike + (b-1),
\* so that the images of one batch have different sums
Levels == {<<0, 1>>, <<-1, 2>>, <<0, -3>>, <<-1, 0>>}

\* the spike of image b sits stride * (b-1) pixels after that of the first image
RawHeatmaps ==
    UNION { UNION { UNION { UNION {
        { [b \in 1..n |-> RawImage(h, w, lv[1], ((pos + stride * (b - 1) - 1) % (h * w)) + 1,
                                   lv[2] + (b - 1))] :
            pos \in 1..(h * w), stride \in 0..1 }
        : lv \in Levels } : w \in 1..MaxW } : h \in 1..MaxH } : n \in 1..MaxB }

Unused == <<>>

InitDsnt ==
    /\ op \in {"dsnt", "_normalise_heatmap"}
    /\ pc = "call"
    /\ inputs \in RawHeatmaps
    /\ method \in Methods \cup OtherMethods
    /\ ret = NoRet
    /\ dsnt_x = Unused /\ dsnt_y = Unused
    /\ p = Unused /\ q = Unused /\ eps = Unused
    /\ heatmaps = Unused /\ centres_in = Unused /\ height = 0 /\ width = 0 /\ fwhm = 0
    /\ loop_centres = Unused /\ loop_heatmaps = Unused /\ iters = 0 /\ gauss = Unused

CallNormaliseHeatmap ==
    /\ pc = "call" /\ op = "_normalise_heatmap"
    /\ ret' = NormaliseHeatmap(inputs, method)
    /\ pc' = "done"
    /\ UNCHANGED <<op, dsntVars, divVars, gaussArgs, loopVars>>

CallDsnt ==
    /\ pc = "call" /\ op = "dsnt"
    /\ ret' = Dsnt(inputs, method)
    /\ IF ret'.status = "ok"
       THEN /\ dsnt_x' = DsntX(Len(inputs), Len(inputs[1]), Len(inputs[1][1]))
            /\ dsnt_y' = DsntY(Len(inputs), Len(inputs[1]), Len(inputs[1][1]))
       ELSE UNCHANGED <<dsnt_x, dsnt_y>>
    /\ pc' = "done"
    /\ UNCHANGED <<op, inputs, method, divVars, gaussArgs, loopVars>>

NextDsnt == CallNormaliseHeatmap \/ CallDsnt

SpecDsnt == InitDsnt /\ [][NextDsnt]_vars

(***************************************************************************)
(* Claims about the normaliser and dsnt.                                   *)
(***************************************************************************)
Shape3(t) == <<Len(t), Len(t[1]), Len(t[1][1])>>
BatchOf(t) == Len(t)
HeightOf(t) == Len(t[1])
WidthOf(t) == Len(t[1][1])

\* the rectified (not yet normalised) heatmap of a valid method
Rectified(in, m) ==
    IF m = "softmax"
    THEN [b \in DOMAIN in |-> [h \in DOMAIN in[b] |-> [w \in DOMAIN in[b][h] |->
             Exp(in[b][h][w] - ReduceMax12(in)[b])]]]
    ELSE IF m = "abs" THEN Map3(TfAbs, in)
    ELSE IF m = "relu" THEN Map3(TfRelu, in)
    ELSE Map3(TfSigmoid, in)

RectifiedSumsNonZero(in, m) == \A b \in DOMAIN in : ReduceSum12(Rectified(in, m))[b] # Zero

IsDistribution(img) ==
    /\ \A h \in DOMAIN img : \A w \in DOMAIN img[h] : RLeq(Zero, img[h][w])
    /\ SumSeq(Flatten(img)) = One

\* C1: for every valid method and every raw heatmap whose rectified per-image
\* sums are non-zero, the normalised heatmap is returned, is elementwise >= 0
\* and every image of it sums to 1.
C1_NormalisedIsDistribution ==
    (pc = "done" /\ method \in Methods /\ RectifiedSumsNonZero(inputs, method))
        => /\ ret.status = "ok"
           /\ Shape3(ret.heatmap) = Shape3(inputs)
           /\ \A b \in DOMAIN ret.heatmap : IsDistribution(ret.heatmap[b])

\* C2: a method string outside {softmax, abs, relu, sigmoid} ends in a raised
\* error whose message names the method, and no heatmap is returned.
C2_UnknownMethodRaises ==
    (pc = "done" /\ method \notin Methods)
        => /\ ret.status = "ValueError"
           /\ ret.msg = "Unknown rectification method \"" \o method \o "\""
           /\ ret.heatmap = <<>> /\ ret.coords = <<>>

C2_Witness ==
    pc = "done" /\ op = "dsnt" /\ method = "Softmax" /\ ret.status = "ValueError"

\* C3: the divide-by-sum normalisation of abs, relu and sigmoid works for every
\* batch size B >= 1: each entry of image b is the rectified entry divided by
\* the sum of image b.
C3_DivideBySumAnyBatch ==
    (pc = "done" /\ method \in {"abs", "relu", "sigmoid"}
                 /\ RectifiedSumsNonZero(inputs, method))
        => /\ ret.status = "ok"
           /\ \A b \in DOMAIN inputs : \A h \in DOMAIN inputs[b] : \A w \in DOMAIN inputs[b][h] :
                ret.heatmap[b][h][w] =
                    RDiv(Rectified(inputs, method)[b][h][w],
                         ReduceSum12(Rectified(inputs, method))[b])

OneHotAt(img, h0, w0) ==
    \A h \in DOMAIN img : \A w \in DOMAIN img[h] :
        img[h][w] = IF h = h0 /\ w = w0 THEN One ELSE Zero

\* C4: when the normalised heatmap of batch element b is one-hot at row h0,
\* column w0 (1-based here), dsnt returns for b the pair [x, y] with
\* x = (2*w0 - (W+1))/W and y = (2*h0 - (H+1))/H.
C4_OneHotExpectation ==
    (pc = "done" /\ op = "dsnt" /\ ret.status = "ok")
        => \A b \in DOMAIN ret.heatmap :
             \A h0 \in 1..HeightOf(inputs) : \A w0 \in 1..WidthOf(inputs) :
                OneHotAt(ret.heatmap[b], h0, w0)
                    => ret.coords[b] =
                         <<Rat(2 * w0 - (WidthOf(inputs) + 1), WidthOf(inputs)),
                           Rat(2 * h0 - (HeightOf(inputs) + 1), HeightOf(inputs))>>

C4_Witness ==
    /\ pc = "done" /\ op = "dsnt" /\ ret.status = "ok"
    /\ HeightOf(inputs) # WidthOf(inputs)
    /\ \E b \in DOMAIN ret.heatmap : \E h0 \in 1..HeightOf(inputs) : \E w0 \in 1..WidthOf(inputs) :
         /\ OneHotAt(ret.heatmap[b], h0, w0)
         /\ ret.coords[b][1] # ret.coords[b][2]

\* the properties C5 states of one grid row of length n
GridRowProps(row, n) ==
    /\ Len(row) = n
    /\ \A i \in 1..n :
         /\ row[i] = Rat(2 * i - (n + 1), n)
         /\ row[i] = RNeg(row[n + 1 - i])
         /\ RLess(Rat(-1, 1), row[i]) /\ RLess(row[i], One)
    /\ \A i \in 1..(n - 1) :
         /\ RLess(row[i], row[i + 1])
         /\ RSub(row[i + 1], row[i]) = Rat(2, n)

\* C5: the grids built in dsnt have shape [B,H,W]; along the width the x-grid
\* is (2*i - (W+1))/W, strictly increasing, spaced by 2/W, symmetric about 0
\* and strictly inside (-1, 1); the y-grid likewise along the height.
C5_Grids ==
    (pc = "done" /\ op = "dsnt" /\ ret.status = "ok")
        => /\ Shape3(dsnt_x) = Shape3(inputs)
           /\ Shape3(dsnt_y) = Shape3(inputs)
           /\ \A b \in DOMAIN dsnt_x : \A h \in DOMAIN dsnt_x[b] :
                GridRowProps(dsnt_x[b][h], WidthOf(inputs))
           /\ \A b \in DOMAIN dsnt_y : \A w \in 1..WidthOf(inputs) :
                GridRowProps([h \in 1..HeightOf(inputs) |-> dsnt_y[b][h][w]], HeightOf(inputs))

C5_Witness ==
    /\ pc = "done" /\ op = "dsnt" /\ ret.status = "ok"
    /\ HeightOf(inputs) = MaxH /\ WidthOf(inputs) = MaxW /\ BatchOf(inputs) = 1
    /\ dsnt_x # Unused /\ dsnt_y # Unused

(***************************************************************************)
(* Symbolic logarithms.  An atom <<v, e>> stands for ln(v + e), e an       *)
(* epsilon <<mantissa, exponent of ten>>.  A divergence is a function from *)
(* atoms to non-zero rational coefficients (the empty function is 0);      *)
(* equal functions denote equal reals.                                     *)
(***************************************************************************)
LZero == [a \in {} |-> Zero]
LTerm(c, atom) == IF c = Zero THEN LZero ELSE [a \in {atom} |-> c]
LCoef(x, a) == IF a \in DOMAIN x THEN x[a] ELSE Zero
LAdd(x, y) ==
    [a \in {b \in (DOMAIN x) \cup (DOMAIN y) : RAdd(LCoef(x, b), LCoef(y, b)) # Zero}
        |-> RAdd(LCoef(x, a), LCoef(y, a))]
LScale(c, x) == IF c = Zero THEN LZero ELSE [a \in DOMAIN x |-> RMul(c, x[a])]

RECURSIVE LSum(_)
LSum(s) == IF s = <<>> THEN LZero ELSE LAdd(s[1], LSum(Tail(s)))

\* the mean of no values (tf.reduce_mean of an empty tensor) is NaN
LNaN == [a \in {<<NaN, NaN>>} |-> NaN]

(***************************************************************************)
(* _kl_2d and _js_2d, lines 84-91.  The elementwise operators broadcast    *)
(* over the batch axis as TensorFlow does.                                 *)
(***************************************************************************)
\* def _kl_2d(p, q, eps=24)
KlDefaultEps == <<24, 0>>
\* def _js_2d(p, q, eps=1e-24)
JsDefaultEps == <<1, -24>>

Omitted == <<>>

Compatible(a, b) == Len(a) = Len(b) \/ Len(a) = 1 \/ Len(b) = 1
BroadcastLen(a, b) == IF Len(a) = 1 THEN Len(b) ELSE Len(a)
Bi(t, i) == t[IF Len(t) = 1 THEN 1 ELSE i]

\* p * (tf.log(p + eps) - tf.log(q + eps)) at one pixel
UnsummedKl(pv, qv, e) ==
    LAdd(LTerm(pv, <<pv, e>>), LTerm(RNeg(pv), <<qv, e>>))

Kl2d(pp, qq, e) ==
    [i \in 1..BroadcastLen(pp, qq) |->
        LSum(Flatten([h \in DOMAIN Bi(pp, i) |-> [w \in DOMAIN Bi(pp, i)[h] |->
                UnsummedKl(Bi(pp, i)[h][w], Bi(qq, i)[h][w], e)]]))]

\* m = 0.5 * (p + q)
Midpoint(pp, qq) ==
    [i \in 1..BroadcastLen(pp, qq) |->
        [h \in DOMAIN Bi(pp, i) |-> [w \in DOMAIN Bi(pp, i)[h] |->
            RMul(Half, RAdd(Bi(pp, i)[h][w], Bi(qq, i)[h][w]))]]]

\* a slip in the second term: KL(m, q) for KL(q, m)
Js2dSwapped(pp, qq, e) ==
    LET m == Midpoint(pp, qq)
        a == Kl2d(pp, m, e)
        b == Kl2d(m, qq, e)
    IN  [i \in DOMAIN a |-> LAdd(LScale(Half, a[i]), LScale(Half, b[i]))]

Js2d(pp, qq, e) ==
    LET m == Midpoint(pp, qq)
        a == Kl2d(pp, m, e)
        b == Kl2d(qq, m, e)
    IN  [i \in DOMAIN a |-> LAdd(LScale(Half, a[i]), LScale(Half, b[i]))]

\* the calls, with the default of the signature when eps is not passed
Kl2dCall(pp, qq, e) == Kl2d(pp, qq, IF e = Omitted THEN KlDefaultEps ELSE e)
Js2dCall(pp, qq, e) == Js2d(pp, qq, IF e = Omitted THEN JsDefaultEps ELSE e)

(***************************************************************************)
(* Inputs of the divergences: distributions with entries k/MaxDen.         *)
(***************************************************************************)
MaxDen == 2

\* mass a/MaxDen at pixel number pos, the rest at the next pixel (cyclically)
SplitImage(h, w, pos, a) ==
    [i \in 1..h |-> [j \in 1..w |->
        LET n == (i - 1) * w + j
            nxt == (pos % (h * w)) + 1
        IN  RAdd(IF n = pos THEN Rat(a, MaxDen) ELSE Zero,
                 IF n = nxt THEN Rat(MaxDen - a, MaxDen) ELSE Zero)]]

\* a batch: image b is the first image with its spike moved b-1 pixels on
\* and its split changed by b-1
SplitBatch(n, h, w, pos, a) ==
    [b \in 1..n |-> SplitImage(h, w, ((pos + b - 2) % (h * w)) + 1, (a + b - 1) % (MaxDen + 1))]

EpsValues == {Omitted, <<1, -24>>, <<24, 0>>}

InitDiv ==
    /\ op \in {"_kl_2d", "_js_2d"}
    /\ pc = "call"
    /\ \E n \in 1..MaxB : \E h \in 1..MaxH : \E w \in 1..MaxW :
         /\ p \in {SplitBatch(n, h, w, pos, a) : pos \in 1..(h * w), a \in 0..MaxDen}
         /\ q \in {SplitBatch(n, h, w, pos, a) : pos \in {1, h * w}, a \in 0..MaxDen}
    /\ eps \in EpsValues
    /\ ret = NoRet
    /\ inputs = Unused /\ method = "" /\ dsnt_x = Unused /\ dsnt_y = Unused
    /\ heatmaps = Unused /\ centres_in = Unused /\ height = 0 /\ width = 0 /\ fwhm = 0
    /\ loop_centres = Unused /\ loop_heatmaps = Unused /\ iters = 0 /\ gauss = Unused

CallKl2d ==
    /\ pc = "call" /\ op = "_kl_2d"
    /\ ret' = OkValue(Kl2dCall(p, q, eps))
    /\ pc' = "done"
    /\ UNCHANGED <<op, dsntVars, divVars, gaussArgs, loopVars>>

CallJs2d ==
    /\ pc = "call" /\ op = "_js_2d"
    /\ ret' = OkValue(Js2dCall(p, q, eps))
    /\ pc' = "done"
    /\ UNCHANGED <<op, dsntVars, divVars, gaussArgs, loopVars>>

NextDiv == CallKl2d \/ CallJs2d

SpecDiv == InitDiv /\ [][NextDiv]_vars

\* C6: _js_2d is symmetric: for p, q of one shape and one eps, the value for
\* (p, q) equals the value for (q, p) at every batch element.
C6_JsSymmetric ==
    (pc = "done" /\ op = "_js_2d")
        => /\ Len(ret.value) = Len(p)
           /\ \A b \in DOMAIN ret.value : ret.value[b] = Js2dCall(q, p, eps)[b]

C6_Witness ==
    /\ pc = "done" /\ op = "_js_2d" /\ Len(p) = MaxB
    /\ \A b \in DOMAIN p : p[b] # q[b] /\ ret.value[b] # LZero

\* C10: without an explicit eps both _kl_2d and _js_2d use eps = 1e-24, so
\* the default call of _kl_2d equals _kl_2d(p, q, 1e-24).
C10_SameDefaultEps ==
    (pc = "done" /\ eps = Omitted)
        => /\ op = "_kl_2d" => ret.value = Kl2d(p, q, <<1, -24>>)
           /\ op = "_js_2d" => ret.value = Js2d(p, q, <<1, -24>>)

(***************************************************************************)
(* _make_gaussian, lines 107-127.  size = <<height, width>>, centre =      *)
(* <<x, y>> in [0,1]^2, fwhm a positive rational.                          *)
(***************************************************************************)
\* -4*tf.log(2.) * ((x-x0)**2 + (y-y0)**2) / fwhm**2, in units of ln 2
GaussExponent(x, y, x0, y0, f) ==
    RNeg(RDiv(RMul(Rat(4, 1), RAdd(RMul(RSub(Rat(x, 1), x0), RSub(Rat(x, 1), x0)),
                                   RMul(RSub(Rat(y, 1), y0), RSub(Rat(y, 1), y0)))),
              RMul(f, f)))

\* tf.exp of e * ln 2, for the integral exponents the inputs are drawn to give
ExpLn2(e) == IF e[2] = 1 THEN Exp(e[1]) ELSE NaN

\* the scaled centre: [centre[0] * size[1], centre[1] * size[0]]
ScaleCentre(size, centre) ==
    <<RMul(centre[1], Rat(size[2], 1)), RMul(centre[2], Rat(size[1], 1))>>

SquareSize(size) == IF size[1] > size[2] THEN size[1] ELSE size[2]

\* the square before cropping; row index = y + 1, column index = x + 1
UnnormSquare(size, centre, f) ==
    LET c == ScaleCentre(size, centre)
        x0 == RSub(c[1], Half)
        y0 == RSub(c[2], Half)
    IN  [yy \in 1..SquareSize(size) |-> [xx \in 1..SquareSize(size) |->
            ExpLn2(GaussExponent(xx - 1, yy - 1, x0, y0, f))]]

\* [:size[0], :size[1]]
Crop(sq, size) == [i \in 1..size[1] |-> [j \in 1..size[2] |-> sq[i][j]]]

\* a slip that would normalise by the sum of the whole square
MakeGaussianSumOfSquare(size, centre, f) ==
    LET sq == UnnormSquare(size, centre, f)
        unnorm == Crop(sq, size)
        total == SumSeq(Flatten(sq))
    IN  [i \in DOMAIN unnorm |-> [j \in DOMAIN unnorm[i] |-> RDiv(unnorm[i][j], total)]]

MakeGaussian(size, centre, f) ==
    LET unnorm == Crop(UnnormSquare(size, centre, f), size)
        total == SumSeq(Flatten(unnorm))
    IN  [i \in DOMAIN unnorm |-> [j \in DOMAIN unnorm[i] |-> RDiv(unnorm[i][j], total)]]

(***************************************************************************)
(* _make_gaussians, lines 129-157: the tf.while_loop over the centres.     *)
(***************************************************************************)
\* cond(centres, heatmaps)
Cond(centres, hms) == Len(centres) > 0

\* a slip that would put the new image in front
BodyPrepend(centres, hms, size, f) ==
    <<Tail(centres), Flatten(MakeGaussian(size, centres[1], f)) \o hms>>

\* body(centres, heatmaps): [centres[1:], concat(heatmaps, flat new_heatmap)]
Body(centres, hms, size, f) ==
    <<Tail(centres), hms \o Flatten(MakeGaussian(size, centres[1], f))>>

\* tf.reshape(heatmaps_out, [-1, height, width]), row-major
ReshapeImages(flat, h, w) ==
    [b \in 1..(Len(flat) \div (h * w)) |-> [i \in 1..h |-> [j \in 1..w |->
        flat[(b - 1) * h * w + (i - 1) * w + j]]]]

(***************************************************************************)
(* js_reg_loss, lines 41-51.                                               *)
(***************************************************************************)
\* tf.reduce_mean(divergences)
ReduceMean(d) == IF Len(d) = 0 THEN LNaN ELSE LScale(Rat(1, Len(d)), LSum(d))

\* _js_2d(heatmaps, gauss) and the mean: the elementwise operators of _js_2d
\* broadcast a batch of 1 and fail on any other mismatch
JsRegLossTail(hms, g) ==
    IF Compatible(hms, g)
    THEN OkValue(ReduceMean(Js2dCall(hms, g, Omitted)))
    ELSE Error("InvalidArgumentError", "Incompatible shapes")

(***************************************************************************)
(* Inputs of the Gaussian generator and of the loss.                       *)
(***************************************************************************)
\* the largest exponent of 1/2 the exact arithmetic is asked to carry
MaxExp == 20

CentreList ==
    << <<Rat(1, 2), Rat(1, 2)>>, <<Rat(0, 1), Rat(0, 1)>>, <<Rat(1, 1), Rat(1, 2)>>,
       <<Rat(1, 4), Rat(3, 4)>>, <<Rat(1, 1), Rat(1, 1)>>, <<Rat(0, 1), Rat(1, 2)>>,
       <<Rat(3, 4), Rat(1, 4)>>, <<Rat(1, 2), Rat(0, 1)>>, <<Rat(0, 1), Rat(1, 1)>>,
       <<Rat(1, 4), Rat(1, 4)>>, <<Rat(1, 2), Rat(1, 1)>>, <<Rat(3, 4), Rat(1, 1)>>,
       <<Rat(1, 1), Rat(0, 1)>>, <<Rat(1, 2), Rat(1, 4)>> >>

Fwhms == {Rat(1, 2), Rat(1, 1), Rat(2, 1)}

\* the spec's scenario: a 5 x 5 image
ScenarioSize == <<5, 5>>

\* every exponent of the square is an integer within MaxExp
Exact(size, centre, f) ==
    LET c == ScaleCentre(size, centre)
    IN  \A yy \in 0..(SquareSize(size) - 1) : \A xx \in 0..(SquareSize(size) - 1) :
          LET e == GaussExponent(xx, yy, RSub(c[1], Half), RSub(c[2], Half), f)
          IN  e[2] = 1 /\ -e[1] <= MaxExp

ExactCentres(size, f) == SelectSeq(CentreList, LAMBDA c : Exact(size, c, f))

\* n consecutive centres of the list, from the s-th on, cyclically
Run(list, s, n) == [k \in 1..n |-> list[((s + k - 2) % Len(list)) + 1]]

Runs(list, maxn) ==
    IF list = <<>> THEN {<<>>}
    ELSE {Run(list, s, n) : s \in 1..Len(list), n \in 0..maxn}

Sizes == {<<h, w>> : h \in 1..MaxH, w \in 1..MaxW}

ExactTable == [size \in Sizes \cup {ScenarioSize}, f \in Fwhms |-> ExactCentres(size, f)]

InitGauss ==
    /\ op \in {"_make_gaussian", "_make_gaussians", "js_reg_loss"}
    /\ pc = "call"
    /\ fwhm \in Fwhms
    /\ \E size \in Sizes \cup {ScenarioSize} :
         /\ op # "_make_gaussian" => size \in Sizes
         /\ IF op = "js_reg_loss"
            THEN /\ height = 0 /\ width = 0
                 /\ heatmaps \in {SplitBatch(n, size[1], size[2], 1, a) :
                                    n \in 1..MaxB, a \in 0..MaxDen}
            ELSE /\ height = size[1] /\ width = size[2]
                 /\ heatmaps = Unused
         /\ centres_in \in Runs(ExactTable[size, fwhm], MaxB)
         /\ op = "_make_gaussian" => Len(centres_in) = 1
         /\ op = "js_reg_loss" => Len(centres_in) >= 1
    /\ ret = NoRet
    /\ inputs = Unused /\ method = "" /\ dsnt_x = Unused /\ dsnt_y = Unused
    /\ p = Unused /\ q = Unused /\ eps = Unused
    /\ loop_centres = Unused /\ loop_heatmaps = Unused /\ iters = 0 /\ gauss = Unused

CallMakeGaussian ==
    /\ pc = "call" /\ op = "_make_gaussian"
    /\ ret' = OkValue(MakeGaussian(<<height, width>>, centres_in[1], fwhm))
    /\ pc' = "done"
    /\ UNCHANGED <<op, dsntVars, divVars, gaussArgs, loopVars>>

\* _make_gaussians is entered: the loop variables are [centres_in, tf.constant([])]
CallMakeGaussians ==
    /\ pc = "call" /\ op = "_make_gaussians"
    /\ loop_centres' = centres_in
    /\ loop_heatmaps' = <<>>
    /\ iters' = 0
    /\ pc' = "loop"
    /\ UNCHANGED <<op, ret, dsntVars, divVars, gaussArgs, gauss>>

\* js_reg_loss enters _make_gaussians with the height and width of the heatmaps
CallJsRegLoss ==
    /\ pc = "call" /\ op = "js_reg_loss"
    /\ height' = Len(heatmaps[1])
    /\ width' = Len(heatmaps[1][1])
    /\ loop_centres' = centres_in
    /\ loop_heatmaps' = <<>>
    /\ iters' = 0
    /\ pc' = "loop"
    /\ UNCHANGED <<op, ret, dsntVars, divVars, heatmaps, centres_in, fwhm, gauss>>

LoopBody ==
    /\ pc = "loop"
    /\ Cond(loop_centres, loop_heatmaps)
    /\ loop_centres' = Body(loop_centres, loop_heatmaps, <<height, width>>, fwhm)[1]
    /\ loop_heatmaps' = Body(loop_centres, loop_heatmaps, <<height, width>>, fwhm)[2]
    /\ iters' = iters + 1
    /\ UNCHANGED <<op, pc, ret, dsntVars, divVars, gaussArgs, gauss>>

LoopExit ==
    /\ pc = "loop"
    /\ ~Cond(loop_centres, loop_heatmaps)
    /\ gauss' = ReshapeImages(loop_heatmaps, height, width)
    /\ IF op = "_make_gaussians"
       THEN ret' = Ok(gauss', <<>>) /\ pc' = "done"
       ELSE ret' = ret /\ pc' = "js"
    /\ UNCHANGED <<op, dsntVars, divVars, gaussArgs, loop_centres, loop_heatmaps, iters>>

JsRegLossReturn ==
    /\ pc = "js"
    /\ ret' = JsRegLossTail(heatmaps, gauss)
    /\ pc' = "done"
    /\ UNCHANGED <<op, dsntVars, divVars, gaussArgs, loopVars>>

NextGauss ==
    \/ CallMakeGaussian
    \/ CallMakeGaussians
    \/ CallJsRegLoss
    \/ LoopBody
    \/ LoopExit
    \/ JsRegLossReturn

SpecGauss == InitGauss /\ [][NextGauss]_vars

(***************************************************************************)
(* Claims about the Gaussian generator and the loss.                       *)
(***************************************************************************)
\* C7: the loop of _make_gaussians consumes the centres front to back, stops
\* after exactly B iterations, and returns B images, the k-th being
\* _make_gaussian([H,W], centres[k], fwhm), for any B >= 0.
C7_OneImagePerCentreInOrder ==
    /\ (op = "_make_gaussians" /\ pc = "loop")
         => /\ iters <= Len(centres_in)
            /\ loop_centres = SubSeq(centres_in, iters + 1, Len(centres_in))
            /\ Len(loop_heatmaps) = iters * height * width
    /\ (op = "_make_gaussians" /\ pc = "done")
         => /\ iters = Len(centres_in)
            /\ ret.status = "ok"
            /\ Len(ret.heatmap) = Len(centres_in)
            /\ \A k \in 1..Len(centres_in) :
                 ret.heatmap[k] = MakeGaussian(<<height, width>>, centres_in[k], fwhm)

C7_Witness ==
    /\ op = "_make_gaussians" /\ pc = "done"
    /\ Len(centres_in) = MaxB /\ iters = MaxB
    /\ height # width
    /\ \A j \in 1..MaxB : \A k \in 1..MaxB : j # k => ret.heatmap[j] # ret.heatmap[k]

\* C8: js_reg_loss fails whenever the number of centre rows differs from the
\* number of heatmaps (also when either is 1) and returns no loss then.
C8_MismatchRejected ==
    (pc = "done" /\ op = "js_reg_loss" /\ Len(centres_in) # Len(heatmaps))
        => ret.status # "ok"

Pixels(size) == {<<i, j>> : i \in 1..size[1], j \in 1..size[2]}

\* the pixels (row, column; 1-based) at which the image is largest
ArgMax(img, size) ==
    {a \in Pixels(size) : \A b \in Pixels(size) : RLeq(img[b[1]][b[2]], img[a[1]][a[2]])}

\* squared distance of pixel (row i, column j), 0-based (j-1, i-1), to the
\* scaled centre (centre.x * W, centre.y * H)
Dist2(px, size, centre) ==
    LET dx == RSub(Rat(px[2] - 1, 1), RMul(centre[1], Rat(size[2], 1)))
        dy == RSub(Rat(px[1] - 1, 1), RMul(centre[2], Rat(size[1], 1)))
    IN  RAdd(RMul(dx, dx), RMul(dy, dy))

Nearest(size, centre) ==
    {a \in Pixels(size) : \A b \in Pixels(size) : RLeq(Dist2(a, size, centre), Dist2(b, size, centre))}

Adjacent(a, b) == Abs(a[1] - b[1]) <= 1 /\ Abs(a[2] - b[2]) <= 1

====
